---- MODULE Spec2Model ----
(***************************************************************************)
(* compiledfiles: listing the source files recorded in the debug           *)
(* information of a binary (src/src/lib.rs).                               *)
(*                                                                         *)
(* One call of parse() is modelled as a sequential process.  The answers   *)
(* of the collaborators (the pdb, object and gimli crates, the stream) are *)
(* drawn from small sets at the step that asks for them.  Strings are      *)
(* sequences of one-character strings; a path is the string PathBuf holds, *)
(* compared, as PathBuf compares, by its components.                       *)
(***************************************************************************)
EXTENDS Integers, Sequences, FiniteSets, TLC

\* Bounds of the model.
MaxPdbFiles == 3      \* file-table entries pushed by one PDB walk
MaxDwarfFiles == 1    \* file-table entries pushed by one DWARF walk

VARIABLES
    pc,         \* position inside parse()
    pdbOpen,    \* outcome of pdb::PDB::open
    fallback,   \* furthest step of the object-container path that was started
    objParse,   \* outcome of object::File::parse
    obj,        \* the parsed object container
    walker,     \* the walker that was entered
    lost,       \* .debug_info failed to uncompress and was defaulted to empty
    unit,       \* the DWARF unit being walked
    file,       \* the file-table entry last taken from the table
    files,      \* the vector `files` of the running walker
    accum,      \* `files` as it was handed to sort()/dedup()
    result      \* what parse() returned

vars == <<pc, pdbOpen, fallback, objParse, obj, walker, lost, unit, file, files,
          accum, result>>

-----------------------------------------------------------------------------
\* Option<T>: None is the empty sequence, Some(x) the sequence <<x>>.
None == <<>>
Some(x) == <<x>>

\* ---- strings and paths ---------------------------------------------------

\* Byte value of the characters the model uses.
CharRank(c) ==
    CASE c = "/" -> 47
      [] c = "<" -> 60
      [] c = "a" -> 97
      [] c = "b" -> 98
      [] c = "c" -> 99

\* str::starts_with('<')
StartsWithLt(s) == Len(s) > 0 /\ s[1] = "<"

\* Path::is_absolute / Path::is_relative on Unix: a leading separator.
IsAbsolute(p) == Len(p) > 0 /\ p[1] = "/"
IsRelative(p) == ~IsAbsolute(p)

\* PathBuf::push: an absolute argument replaces the buffer; otherwise a
\* separator is added unless the buffer is empty or already ends in one.
Push(buf, p) ==
    IF IsAbsolute(p) THEN p
    ELSE IF Len(buf) > 0 /\ buf[Len(buf)] # "/" THEN buf \o <<"/">> \o p
    ELSE buf \o p

\* Path::join
Join(base, p) == Push(base, p)

\* Path::components: the root (written <<"/">>) followed by the non-empty
\* names between separators.
RECURSIVE SplitNames(_, _)
SplitNames(s, cur) ==
    IF s = <<>> THEN (IF cur = <<>> THEN <<>> ELSE <<cur>>)
    ELSE IF Head(s) = "/"
         THEN (IF cur = <<>> THEN <<>> ELSE <<cur>>) \o SplitNames(Tail(s), <<>>)
         ELSE SplitNames(Tail(s), Append(cur, Head(s)))
Components(p) ==
    (IF IsAbsolute(p) THEN << <<"/">> >> ELSE <<>>) \o SplitNames(p, <<>>)

\* Lexicographic order of byte strings, and of component lists.
RECURSIVE StrLess(_, _)
StrLess(a, b) ==
    IF b = <<>> THEN FALSE
    ELSE IF a = <<>> THEN TRUE
    ELSE IF CharRank(Head(a)) # CharRank(Head(b))
         THEN CharRank(Head(a)) < CharRank(Head(b))
         ELSE StrLess(Tail(a), Tail(b))
RECURSIVE CompsLess(_, _)
CompsLess(a, b) ==
    IF b = <<>> THEN FALSE
    ELSE IF a = <<>> THEN TRUE
    ELSE IF Head(a) # Head(b) THEN StrLess(Head(a), Head(b))
         ELSE CompsLess(Tail(a), Tail(b))

\* PathBuf's PartialEq and Ord compare components.
PathEq(p, q) == Components(p) = Components(q)
PathLess(p, q) == CompsLess(Components(p), Components(q))
PathLeq(p, q) == ~PathLess(q, p)

\* ---- FileInfo ------------------------------------------------------------

FileInfo(p, s, t, c) == [path |-> p, size |-> s, timestamp |-> t, checksum |-> c]

\* #[derive(PartialEq, Eq)] on FileInfo: all four fields.
InfoEq(x, y) ==
    /\ PathEq(x.path, y.path)
    /\ x.size = y.size
    /\ x.timestamp = y.timestamp
    /\ x.checksum = y.checksum

\* impl Ord for FileInfo: the path alone.
InfoLessReversed(x, y) == PathLess(y.path, x.path)
InfoLess(x, y) == PathLess(x.path, y.path)

\* Vec::sort: a stable sort under InfoLess.  Each element is inserted behind
\* every element that is not greater than it.
RECURSIVE InsertSorted(_, _)
InsertSorted(x, s) ==
    IF s = <<>> THEN <<x>>
    ELSE IF InfoLess(x, Head(s)) THEN <<x>> \o s
    ELSE <<Head(s)>> \o InsertSorted(x, Tail(s))
RECURSIVE SortFiles(_)
SortFiles(s) ==
    IF s = <<>> THEN <<>>
    ELSE InsertSorted(s[Len(s)], SortFiles(SubSeq(s, 1, Len(s) - 1)))

\* Vec::dedup: of each run of consecutive equal elements the first is kept.
RECURSIVE DedupByPath(_)
DedupByPath(s) ==
    IF Len(s) <= 1 THEN s
    ELSE LET d == DedupByPath(SubSeq(s, 1, Len(s) - 1))
         IN  IF PathEq(d[Len(d)].path, s[Len(s)].path) THEN d
             ELSE Append(d, s[Len(s)])
RECURSIVE DedupFiles(_)
DedupFiles(s) ==
    IF Len(s) <= 1 THEN s
    ELSE LET d == DedupFiles(SubSeq(s, 1, Len(s) - 1))
         IN  IF InfoEq(d[Len(d)], s[Len(s)]) THEN d ELSE Append(d, s[Len(s)])

\* files.sort(); files.dedup();
Normalize(s) == DedupFiles(SortFiles(s))

\* ---- results -------------------------------------------------------------

NoResult == [kind |-> "none", err |-> "", files |-> <<>>]
Ok(fs) == [kind |-> "Ok", err |-> "", files |-> fs]
Err(e) == [kind |-> "Err", err |-> e, files |-> <<>>]
Panic == [kind |-> "Panic", err |-> "", files |-> <<>>]


\* ---- the collaborators' answers ------------------------------------------

\* pdb::PDB::open: opened, Error::UnrecognizedFileFormat, any other pdb::Error.
PdbOpenOutcomes == {"Ok", "UnrecognizedFileFormat", "Other"}

\* Names and checksum tags of PDB file-table entries.
PdbNames == { <<"a">>, <<"b">> }
PdbChecksumTags == {"None", "Md5", "Sha1", "Sha256"}

\* object::File::parse: no known magic, a malformed container, or parsed.
ObjParseFailures == {"Unknown", "Malformed"}
BinaryFormats == {"Elf", "Coff", "MachO", "Pe", "Wasm", "Xcoff"}

NoObj == [format |-> "none", debug |-> FALSE]
ObjFiles == [format : BinaryFormats, debug : BOOLEAN]

\* A DWARF unit: its compilation directory and what its line-program header
\* declares about the file entries.
NoUnit == [st |-> "NoUnit", comp_dir |-> None, has_timestamp |-> FALSE,
           has_size |-> FALSE, has_md5 |-> FALSE]
CompDirs == { None, Some(<<"/", "c">>), Some(<<"c">>) }
Units == [st : {"Unit"}, comp_dir : CompDirs, has_timestamp : BOOLEAN,
          has_size : BOOLEAN, has_md5 : BOOLEAN]

\* A file-table entry: the directory (dirSt "None": file.directory() finds
\* no directory; "Err": its string does not decode), the base name, and the
\* raw timestamp, size and digest.
DirStrings == { <<"a">>, <<"/", "a">> }
NameStrings == { <<"<">>, <<"b">>, <<"/", "b">> }
RawValues == {0, 1}
NoFile == [dirSt |-> "NoFile", dir |-> <<>>, nameSt |-> "Err", name |-> <<>>,
           timestamp |-> 0, size |-> 0, md5 |-> "d"]
FileEntries ==
    [dirSt : {"Ok"}, dir : DirStrings, nameSt : {"Ok"}, name : NameStrings,
     timestamp : RawValues, size : RawValues, md5 : {"d"}]
    \cup [dirSt : {"Ok"}, dir : DirStrings, nameSt : {"Err"}, name : {<<>>},
          timestamp : {0}, size : {0}, md5 : {"d"}]
    \cup [dirSt : {"None", "Err"}, dir : {<<>>}, nameSt : {"Err"}, name : {<<>>},
          timestamp : {0}, size : {0}, md5 : {"d"}]

\* ---- Init ----------------------------------------------------------------

Init ==
    /\ pc = "start"
    /\ pdbOpen = "none"
    /\ fallback = "none"
    /\ objParse = "none"
    /\ obj = NoObj
    /\ walker = "none"
    /\ lost = FALSE
    /\ unit = NoUnit
    /\ file = NoFile
    /\ files = <<>>
    /\ accum = <<>>
    /\ result = NoResult

\* A return of parse(): the walker's locals are dropped.
Return(r) ==
    /\ pc' = "done"
    /\ result' = r
    /\ unit' = NoUnit

\* A return through `?` or a panic: no partial result.
Fail(r) ==
    /\ Return(r)
    /\ files' = <<>>
    /\ accum' = <<>>

\* files.sort(); files.dedup(); Ok(files)
Finish ==
    /\ accum' = files
    /\ files' = Normalize(files)
    /\ Return(Ok(Normalize(files)))

\* ---- parse ---------------------------------------------------------------

\* match pdb::PDB::open(&mut source)
FallBackOnAnyError(o) == o # "Ok"
FallsBack(o) == o = "UnrecognizedFileFormat"

PdbOpen ==
    /\ pc = "start"
    /\ \E o \in PdbOpenOutcomes :
        /\ pdbOpen' = o
        /\ IF o = "Ok"
           THEN /\ pc' = "pdb_load"
                /\ walker' = "pdb"
                /\ UNCHANGED <<fallback, files, accum, result, unit>>
           ELSE IF FallsBack(o)
           THEN /\ pc' = "rewind"
                /\ UNCHANGED <<walker, fallback, files, accum, result, unit>>
           ELSE /\ Fail(Err("Pdb"))
                /\ UNCHANGED <<walker, fallback>>
    /\ UNCHANGED <<objParse, obj, lost, file>>

\* source.rewind()?
Rewind ==
    /\ pc = "rewind"
    /\ fallback' = "rewind"
    /\ \/ pc' = "read" /\ UNCHANGED <<files, accum, result, unit>>
       \/ Fail(Err("Io"))
    /\ UNCHANGED <<pdbOpen, objParse, obj, walker, lost, file>>

\* source.read_to_end(&mut contents)?
ReadToEnd ==
    /\ pc = "read"
    /\ fallback' = "read"
    /\ \/ pc' = "objparse" /\ UNCHANGED <<files, accum, result, unit>>
       \/ Fail(Err("Io"))
    /\ UNCHANGED <<pdbOpen, objParse, obj, walker, lost, file>>

\* parse_object: what the container's flag and format lead to.
ParseObjectIgnoringFlag(o) ==
    CASE o.format \in {"Elf", "MachO"} -> "dwarf"
      [] o.format \in {"Coff", "Pe"} -> "MissingDebugSymbols"
      [] o.format = "Wasm" -> "panic"
      [] OTHER -> "UnrecognizedFileFormat"
ParseObject(o) ==
    IF o.debug
    THEN CASE o.format \in {"Elf", "MachO"} -> "dwarf"
           [] o.format \in {"Coff", "Pe"} -> "MissingDebugSymbols"
           [] o.format = "Wasm" -> "panic"
           [] OTHER -> "UnrecognizedFileFormat"
    ELSE "MissingDebugSymbols"

\* match object::File::parse(&contents[..])
ObjectParse ==
    /\ pc = "objparse"
    /\ fallback' = "parse"
    /\ \/ \E f \in ObjParseFailures :
            /\ objParse' = f
            /\ Fail(Err("Object"))
            /\ UNCHANGED <<obj, walker>>
       \/ \E o \in ObjFiles :
            /\ objParse' = "Ok"
            /\ obj' = o
            /\ LET r == ParseObject(o)
               IN  IF r = "dwarf"
                   THEN /\ pc' = "dwarf_load"
                        /\ walker' = "dwarf"
                        /\ UNCHANGED <<files, accum, result, unit>>
                   ELSE /\ Fail(IF r = "panic" THEN Panic ELSE Err(r))
                        /\ UNCHANGED walker
    /\ UNCHANGED <<pdbOpen, lost, file>>

\* ---- parse_pdb -----------------------------------------------------------

ConvertPdbChecksum(tag) ==
    IF tag = "None" THEN None ELSE Some([kind |-> tag, data |-> "d"])

\* pdb.debug_information()?, pdb.string_table()?, dbi.modules()?
PdbLoad ==
    /\ pc = "pdb_load"
    /\ \/ pc' = "pdb_modules" /\ UNCHANGED <<files, accum, result, unit>>
       \/ Fail(Err("Pdb"))
    /\ UNCHANGED <<pdbOpen, fallback, objParse, obj, walker, lost, file>>

\* modules.next()?, pdb.module_info(&module)?, mod_info.line_program()?
PdbNextModule ==
    /\ pc = "pdb_modules"
    /\ \/ Fail(Err("Pdb"))
       \/ Finish
       \/ UNCHANGED <<pc, files, accum, result, unit>>
       \/ pc' = "pdb_files" /\ UNCHANGED <<files, accum, result, unit>>
    /\ UNCHANGED <<pdbOpen, fallback, objParse, obj, walker, lost, file>>

\* mod_files.next()?, file.name.to_raw_string(&string_table)?, files.push(info)
PdbNextFile ==
    /\ pc = "pdb_files"
    /\ \/ Fail(Err("Pdb"))
       \/ pc' = "pdb_modules" /\ UNCHANGED <<files, accum, result, unit>>
       \/ /\ Len(files) < MaxPdbFiles
          /\ \E n \in PdbNames, t \in PdbChecksumTags :
                files' = Append(files, FileInfo(n, None, None, ConvertPdbChecksum(t)))
          /\ UNCHANGED <<pc, accum, result, unit>>
    /\ UNCHANGED <<pdbOpen, fallback, objParse, obj, walker, lost, file>>

\* ---- parse_elf_file ------------------------------------------------------

\* load_section: section.uncompressed_data().unwrap_or_default().  A section
\* that fails to uncompress becomes the empty default; `lost` records that
\* this happened to .debug_info, the section the units are read from.
DwarfLoad ==
    /\ pc = "dwarf_load"
    /\ \E l \in BOOLEAN : lost' = l
    /\ pc' = "dwarf_units"
    /\ UNCHANGED <<pdbOpen, fallback, objParse, obj, walker, unit, file, files,
                   accum, result>>

\* iter.next()?, dwarf.unit(header)?, unit.line_program.  An empty
\* .debug_info holds no unit: the iterator ends at once.
DwarfNextUnit ==
    /\ pc = "dwarf_units"
    /\ \/ ~lost /\ Fail(Err("Dwarf")) /\ UNCHANGED file
       \/ Finish /\ UNCHANGED file
       \/ ~lost /\ UNCHANGED <<pc, files, accum, result, unit, file>>
       \/ /\ ~lost
          /\ \E u \in Units : unit' = u
          /\ pc' = "dwarf_files"
          /\ file' = NoFile
          /\ UNCHANGED <<files, accum, result>>
    /\ UNCHANGED <<pdbOpen, fallback, objParse, obj, walker, lost>>

\* The directory of an entry, under the compilation directory when relative.
ResolveDirNeverPrefixed(u, e) == e.dir
ResolveDir(u, e) ==
    IF IsRelative(e.dir) /\ u.comp_dir # None
    THEN Join(u.comp_dir[1], e.dir)
    ELSE e.dir

\* match raw { 0 => None, x => Some(x) }
ZeroKept(x) == Some(x)
ZeroSentinel(x) == IF x = 0 THEN None ELSE Some(x)

\* The FileInfo built from an entry.
DecodeEntry(u, e) ==
    FileInfo(Push(ResolveDir(u, e), e.name),
             IF u.has_size THEN ZeroSentinel(e.size) ELSE None,
             IF u.has_timestamp THEN ZeroSentinel(e.timestamp) ELSE None,
             IF u.has_md5 THEN Some([kind |-> "Md5", data |-> e.md5]) ELSE None)

\* if !filename_str.starts_with('<')
NothingDiscarded(e) == TRUE
Emitted(e) == ~StartsWithLt(e.name)

\* One turn of `for file in program.header().file_names()`.
DwarfNextFile ==
    /\ pc = "dwarf_files"
    /\ \/ /\ pc' = "dwarf_units"
          /\ file' = NoFile
          /\ UNCHANGED <<files, accum, result, unit>>
       \/ \E e \in FileEntries :
            /\ file' = e
            /\ IF e.dirSt = "None" THEN Fail(Panic)
               ELSE IF e.dirSt = "Err" \/ e.nameSt = "Err" THEN Fail(Err("Dwarf"))
               ELSE IF Emitted(e)
               THEN /\ Len(files) < MaxDwarfFiles
                    /\ files' = Append(files, DecodeEntry(unit, e))
                    /\ UNCHANGED <<pc, accum, result, unit>>
               ELSE UNCHANGED <<pc, files, accum, result, unit>>
    /\ UNCHANGED <<pdbOpen, fallback, objParse, obj, walker, lost>>

-----------------------------------------------------------------------------
Next ==
    \/ PdbOpen
    \/ Rewind
    \/ ReadToEnd
    \/ ObjectParse
    \/ PdbLoad
    \/ PdbNextModule
    \/ PdbNextFile
    \/ DwarfLoad
    \/ DwarfNextUnit
    \/ DwarfNextFile

Spec == Init /\ [][Next]_vars

-----------------------------------------------------------------------------
\* What the claims speak about.

Returned == result.kind = "Ok"
Last(s) == s[Len(s)]

\* Equality of two records on all four fields.
SameRecord(x, y) ==
    /\ Components(x.path) = Components(y.path)
    /\ x.size = y.size
    /\ x.timestamp = y.timestamp
    /\ x.checksum = y.checksum

\* The DWARF walker has just pushed the record of the entry `file`.
EntryEmitted ==
    /\ pc = "dwarf_files"
    /\ file.dirSt = "Ok"
    /\ file.nameSt = "Ok"
    /\ ~StartsWithLt(file.name)

\* ---- C1 ------------------------------------------------------------------

\* C1: no two records of a collection returned by parse are equal on all
\* four fields (path, size, timestamp, checksum).
C1_NoFullDuplicates ==
    Returned =>
        \A i, j \in 1..Len(result.files) :
            i < j => ~SameRecord(result.files[i], result.files[j])

\* ---- C2 ------------------------------------------------------------------

\* C2: in a collection returned by parse every record's path is at most the
\* path of the record after it, whatever the order of accumulation.
C2_SortedByPath ==
    Returned =>
        \A i \in 1..(Len(result.files) - 1) :
            PathLeq(result.files[i].path, result.files[i + 1].path)

\* Two records were accumulated in descending order of path and returned.
C2_Witness ==
    /\ Returned
    /\ Len(accum) >= 2
    /\ PathLess(accum[2].path, accum[1].path)
    /\ Len(result.files) >= 2

\* ---- C3 ------------------------------------------------------------------

\* C3: sort-then-dedup neither loses nor invents records: every accumulated
\* record has an equal record in the output and every output record has an
\* equal accumulated record; records sharing a path but differing in another
\* field are therefore both returned.
C3_NormalizeKeepsRecords ==
    Returned =>
        /\ \A i \in 1..Len(accum) :
              \E j \in 1..Len(result.files) : SameRecord(accum[i], result.files[j])
        /\ \A j \in 1..Len(result.files) :
              \E i \in 1..Len(accum) : SameRecord(result.files[j], accum[i])

\* Two accumulated records share a path and differ in the checksum, a third
\* is a full duplicate and was removed.
C3_Witness ==
    /\ Returned
    /\ Len(accum) = 3
    /\ Len(result.files) = 2
    /\ PathEq(result.files[1].path, result.files[2].path)
    /\ result.files[1].checksum # result.files[2].checksum

\* ---- C4 ------------------------------------------------------------------

\* C4 as stated: object-container parsing of the stream is attempted if and
\* only if the PDB open failed with the "unrecognized format" signal; after a
\* successful open the PDB walker's result is returned, and any other failure
\* of the open is returned as a PDB-layer error with the stream neither
\* rewound, read nor parsed as an object container.
C4_ObjectParseIffUnrecognized ==
    pc = "done" =>
        /\ (objParse # "none") <=> (pdbOpen = "UnrecognizedFileFormat")
        /\ pdbOpen = "Ok" => walker = "pdb" /\ fallback = "none"
        /\ pdbOpen = "Other" =>
              result = Err("Pdb") /\ walker = "none" /\ fallback = "none"

\* C4 as amended: object-container parsing is attempted only if the PDB open
\* failed with the "unrecognized format" signal, and then always unless the
\* rewind or the read of the stream fails, which returns an I/O error; after
\* a successful open only the PDB walker runs and its result (a collection or
\* a PDB-layer error) is returned; any other failure of the open is returned
\* at once as a PDB-layer error, the stream not rewound, read or parsed.
C4_ObjectParseOnlyAfterUnrecognized ==
    /\ objParse # "none" => pdbOpen = "UnrecognizedFileFormat"
    /\ fallback # "none" => pdbOpen = "UnrecognizedFileFormat"
    /\ pc = "done" /\ pdbOpen = "UnrecognizedFileFormat" =>
          \/ objParse # "none"
          \/ result = Err("Io") /\ fallback \in {"rewind", "read"}
    /\ pdbOpen = "Ok" =>
          /\ walker = "pdb" /\ fallback = "none" /\ objParse = "none"
          /\ pc = "done" => result.kind = "Ok" \/ result = Err("Pdb")
    /\ pdbOpen = "Other" =>
          /\ pc = "done" /\ result = Err("Pdb")
          /\ walker = "none" /\ fallback = "none" /\ objParse = "none"

\* The open failed with "unrecognized format", the stream was rewound and
\* read, and it parsed as an object container.
C4_Witness ==
    /\ pc = "done"
    /\ pdbOpen = "UnrecognizedFileFormat"
    /\ fallback = "parse"
    /\ objParse = "Ok"

\* ---- C5 ------------------------------------------------------------------

\* C5: a stream that matches neither the PDB signature nor any object
\* container signature makes parse fail with UnrecognizedFileFormat.
C5_UnknownStreamIsUnrecognized ==
    pc = "done" /\ pdbOpen = "UnrecognizedFileFormat" /\ objParse = "Unknown" =>
        result = Err("UnrecognizedFileFormat")

\* ---- C6 ------------------------------------------------------------------

\* C6: for a parsed object container the outcome is fixed by its flag and
\* kind: without the debug-symbols flag the result is MissingDebugSymbols for
\* every kind; for COFF and PE it is MissingDebugSymbols whatever the flag;
\* the DWARF walker is reached exactly by ELF and Mach-O with the flag; any
\* other kind but WASM with the flag yields UnrecognizedFileFormat.
C6_ObjectOutcome ==
    objParse = "Ok" =>
        /\ ~obj.debug => result = Err("MissingDebugSymbols")
        /\ obj.format \in {"Coff", "Pe"} => result = Err("MissingDebugSymbols")
        /\ walker = "dwarf" <=> (obj.debug /\ obj.format \in {"Elf", "MachO"})
        /\ obj.debug /\ obj.format \notin {"Elf", "MachO", "Coff", "Pe", "Wasm"} =>
              result = Err("UnrecognizedFileFormat")

\* A PE container that reports debug symbols was refused.
C6_Witness ==
    /\ objParse = "Ok"
    /\ obj.format = "Pe"
    /\ obj.debug
    /\ result = Err("MissingDebugSymbols")

\* ---- C7 ------------------------------------------------------------------

\* C7: a record emitted by the DWARF walker has timestamp = Some(x) exactly
\* when the unit's header declares timestamps and the entry's raw timestamp x
\* is not zero, and no timestamp otherwise; the same holds for size; neither
\* is ever Some(0), in the vector or in the returned collection.
C7_ZeroSentinel ==
    /\ EntryEmitted =>
          /\ Last(files).timestamp =
                IF unit.has_timestamp /\ file.timestamp # 0
                THEN <<file.timestamp>> ELSE <<>>
          /\ Last(files).size =
                IF unit.has_size /\ file.size # 0 THEN <<file.size>> ELSE <<>>
    /\ walker = "dwarf" =>
          /\ \A i \in 1..Len(files) :
                files[i].timestamp # <<0>> /\ files[i].size # <<0>>
          /\ \A i \in 1..Len(result.files) :
                result.files[i].timestamp # <<0>> /\ result.files[i].size # <<0>>

\* An entry with a declared timestamp of raw value 0 and a declared size of
\* raw value 1 was emitted.
C7_Witness ==
    /\ EntryEmitted
    /\ unit.has_timestamp /\ file.timestamp = 0
    /\ unit.has_size /\ file.size = 1
    /\ Last(files).timestamp = <<>>
    /\ Last(files).size = <<1>>

\* ---- C8 ------------------------------------------------------------------

\* The last name of a path begins with '<'.
PseudoPath(p) ==
    LET c == Components(p) IN Len(c) > 0 /\ c[Len(c)][1] = "<"

\* C8: a file-table entry whose resolved base name begins with '<' adds no
\* record, whatever its other fields, and every other resolved entry adds
\* exactly one record to the vector; no record of a pseudo-file is in the
\* vector or in the returned collection.
C8_PseudoFilesDiscarded ==
    /\ [][ (pc = "dwarf_files" /\ pc' = "dwarf_files") =>
              IF file'.name[1] = "<"
              THEN files' = files
              ELSE /\ Len(files') = Len(files) + 1
                   /\ SubSeq(files', 1, Len(files)) = files ]_vars
    /\ [](walker = "dwarf" =>
              /\ \A i \in 1..Len(files) : ~PseudoPath(files[i].path)
              /\ \A i \in 1..Len(result.files) : ~PseudoPath(result.files[i].path))

\* An entry named "<" with a declared non-zero timestamp was taken from the
\* table after a record had been pushed, and the vector kept its length.
C8_Witness ==
    /\ pc = "dwarf_files"
    /\ file.dirSt = "Ok" /\ file.nameSt = "Ok"
    /\ file.name[1] = "<"
    /\ unit.has_timestamp /\ file.timestamp = 1
    /\ Len(files) = 1

\* ---- C9 ------------------------------------------------------------------

\* C9: in the DWARF walker a section that cannot be uncompressed, a file
\* entry whose directory cannot be resolved, and a directory or name string
\* that does not decode each end the call with Error::Dwarf.
C9_DecodeFailureIsDwarfError ==
    /\ pc = "done"
    /\ walker = "dwarf"
    /\ \/ lost
       \/ file.dirSt \in {"None", "Err"}
       \/ file.dirSt = "Ok" /\ file.nameSt = "Err"
    => result = Err("Dwarf")

\* ---- C10 -----------------------------------------------------------------

\* The string `d`, a separator, the string `n`.
Concat(d, n) == d \o <<"/">> \o n

\* The directory the claim speaks of: under the compilation directory exactly
\* when the directory string is relative and the unit declares one.
PrefixedDir ==
    IF file.dir[1] # "/" /\ unit.comp_dir # <<>>
    THEN Concat(unit.comp_dir[1], file.dir)
    ELSE file.dir

\* C10 as stated: the path of an emitted record is the entry's directory,
\* prefixed as above, with the base name appended; a file of a relative
\* directory is reported under an absolute path.
C10_PathIsDirThenName ==
    EntryEmitted =>
        /\ Components(Last(files).path) = Components(Concat(PrefixedDir, file.name))
        /\ file.dir[1] # "/" => Last(files).path[1] = "/"

\* C10 as amended: the path of an emitted record is the base name alone when
\* the base name is absolute, and otherwise the entry's directory, prefixed
\* as above, with the base name appended; a file of a relative directory and
\* relative base name is reported under an absolute path when the unit
\* declares an absolute compilation directory.
C10_PathIsDirPushName ==
    EntryEmitted =>
        /\ Components(Last(files).path) =
              IF file.name[1] = "/"
              THEN Components(file.name)
              ELSE Components(Concat(PrefixedDir, file.name))
        /\ /\ file.dir[1] # "/"
           /\ file.name[1] # "/"
           /\ unit.comp_dir # <<>>
           /\ unit.comp_dir[1][1] = "/"
           => Last(files).path[1] = "/"

\* A relative directory and name under a declared absolute compilation
\* directory: the record's path is /c/a/b.
C10_Witness ==
    /\ EntryEmitted
    /\ file.dir = <<"a">>
    /\ file.name = <<"b">>
    /\ unit.comp_dir = << <<"/", "c">> >>
    /\ Last(files).path = <<"/", "c", "/", "a", "/", "b">>

====
